---------------------------- MODULE Spec2Model ----------------------------
(***************************************************************************)
(* A model of the sorted-vec crate (src/src/lib.rs): SortedVec, SortedSet, *)
(* ReverseSortedVec and ReverseSortedSet over T = integers (the element    *)
(* type of the crate's own tests), and of its partial::SortedVec and       *)
(* partial::ReverseSortedVec (src/src/partial.rs) over a partially ordered *)
(* element type.  One container is modelled at a time; `kind` says which   *)
(* type it is.  Every public operation is an action; a call that panics    *)
(* returns Panic and leaves the container as the unwinding found it.  The  *)
(* variables op, arg, pre and ret record the last call, its                *)
(* argument, the backing vector it found and the value it returned, so     *)
(* that a postcondition is a state predicate.  Under SpecTwice, prev also  *)
(* records the call before the last one.  Under SpecMirror and SpecAgree a *)
(* second container of another type receives the same calls; twin is its   *)
(* backing vector and the value its last call returned.                    *)
(*                                                                         *)
(* The crate searches with std's slice::binary_search_by, which leaves     *)
(* open which of several equal elements it reports and what it reports on  *)
(* an unsorted slice.  std has shipped two searches; `search` says which   *)
(* one the program was built with, and is chosen once, at the start.       *)
(*                                                                         *)
(* Indices are Rust's (0-based); the element at Rust index i of a vector   *)
(* s is s[i + 1].                                                          *)
(***************************************************************************)
EXTENDS Integers, Sequences, FiniteSets, TLC

VARIABLES kind, vec, op, arg, pre, ret, prev, twin, search

vars == <<kind, vec, op, arg, pre, ret, prev, twin, search>>

\* Bounds of the model.
MaxLen == 3
MaxVal == 3
MaxExt == 2

Values == 1..MaxVal

Kinds == {"SortedVec", "SortedSet", "ReverseSortedVec", "ReverseSortedSet"}
VecKinds == {"SortedVec", "ReverseSortedVec"}
SetKinds == {"SortedSet", "ReverseSortedSet"}
IsReverse(k) == k \in {"ReverseSortedVec", "ReverseSortedSet"}

\* All sequences over S of length at most n.
SeqsUpTo(S, n) == UNION {[1..m -> S] : m \in 0..n}

(***************************************************************************)
(* Comparison.                                                             *)
(***************************************************************************)
\* Ord::cmp on integers.
Cmp(a, b) == IF a < b THEN "Less" ELSE IF a > b THEN "Greater" ELSE "Equal"

\* Ordering::reverse.
ReverseForgotten(o) == o
Reverse(o) == IF o = "Less" THEN "Greater" ELSE IF o = "Greater" THEN "Less" ELSE "Equal"

\* The comparator a container of kind k hands to every search and sort:
\* x.cmp(y) for the forward types, x.cmp(y).reverse() for the reverse ones.
CompareWrongDir(k, a, b) == IF IsReverse(k) THEN Cmp(a, b) ELSE Reverse(Cmp(a, b))
Compare(k, a, b) == IF IsReverse(k) THEN Reverse(Cmp(a, b)) ELSE Cmp(a, b)

(***************************************************************************)
(* Vec primitives.                                                         *)
(***************************************************************************)
\* s read back to front.
Rev(s) == [i \in 1..Len(s) |-> s[Len(s) + 1 - i]]

\* Vec::insert(i, x): x is placed at Rust index i, later elements shift right.
VecInsert(s, i, x) == SubSeq(s, 1, i) \o <<x>> \o SubSeq(s, i + 1, Len(s))

\* Vec::remove(i): the vector without the element at Rust index i.
VecRemove(s, i) == SubSeq(s, 1, i) \o SubSeq(s, i + 2, Len(s))

\* The two searches of std's slice::binary_search_by.
StdSearches == {"early_return", "branchless"}

\* slice::binary_search_by(|y| Compare(y, x)) as std had it from Rust 1.52 to
\* 1.81: the loop probes mid = left + size/2, returns Ok(mid) at the first probe
\* that compares Equal, narrows to the right on Less and to the left on
\* Greater, and returns Err(left) when the range is empty.  (lib.rs:662-664
\* expects this search: ReverseSortedVec [6,5,4,4,3] finds 4 at index 2.)
RECURSIVE BinarySearchLoop(_, _, _, _, _)
BinarySearchLoop(k, s, x, left, right) ==
  IF left >= right THEN [ok |-> FALSE, idx |-> left]
  ELSE LET mid == left + ((right - left) \div 2)
           c   == Compare(k, s[mid + 1], x)
       IN  IF c = "Less" THEN BinarySearchLoop(k, s, x, mid + 1, right)
           ELSE IF c = "Greater" THEN BinarySearchLoop(k, s, x, left, mid)
           ELSE [ok |-> TRUE, idx |-> mid]

\* slice::binary_search_by as std has it before Rust 1.52 and since 1.82: on a
\* non-empty slice the loop halves size down to 1 without leaving at an Equal
\* probe, keeping base on Greater and moving it to mid otherwise; the element
\* left at base decides: Ok(base) on Equal, Err(base + 1) on Less, Err(base) on
\* Greater.  (partial.rs:286-288 expects this search: the same vector finds 4
\* at index 3.)
RECURSIVE BinarySearchNarrow(_, _, _, _, _)
BinarySearchNarrow(k, s, x, base, size) ==
  IF size > 1
  THEN LET half == size \div 2
           mid  == base + half
           c    == Compare(k, s[mid + 1], x)
       IN  BinarySearchNarrow(k, s, x, IF c = "Greater" THEN base ELSE mid, size - half)
  ELSE LET c == Compare(k, s[base + 1], x)
       IN  IF c = "Equal" THEN [ok |-> TRUE, idx |-> base]
           ELSE [ok |-> FALSE, idx |-> IF c = "Less" THEN base + 1 ELSE base]

\* binary_search(&x) of a container of kind k over backing vector s, by the
\* search the program was built with.
binary_search_short(k, s, x) ==
  BinarySearchLoop(k, s, x, 0, IF s = <<>> THEN 0 ELSE Len(s) - 1)
binary_search(k, s, x) ==
  IF search = "early_return" THEN BinarySearchLoop(k, s, x, 0, Len(s))
  ELSE IF s = <<>> THEN [ok |-> FALSE, idx |-> 0]
  ELSE BinarySearchNarrow(k, s, x, 0, Len(s))

\* sort_unstable / sort_unstable_by with the container's comparator: the
\* permutation of s that is ordered under Compare(k, _, _) (unique for integers).
RECURSIVE SortInsert(_, _, _)
SortInsert(k, s, x) ==
  IF s = <<>> THEN <<x>>
  ELSE IF Compare(k, x, Head(s)) = "Greater" THEN <<Head(s)>> \o SortInsert(k, Tail(s), x)
  ELSE <<x>> \o s

RECURSIVE sort_unstable(_, _)
sort_unstable(k, s) ==
  IF s = <<>> THEN <<>> ELSE SortInsert(k, sort_unstable(k, Tail(s)), Head(s))

\* Vec::dedup: of every run of consecutive equal elements the first is kept.
RECURSIVE VecDedup(_)
VecDedup(s) ==
  IF Len(s) <= 1 THEN s
  ELSE IF s[1] = s[2] THEN VecDedup(<<s[1]>> \o SubSeq(s, 3, Len(s)))
  ELSE <<s[1]>> \o VecDedup(Tail(s))

\* Vec::retain with a closure that answers keep[i] for the i-th element visited.
RECURSIVE VecRetain(_, _)
VecRetain(s, keep) ==
  IF s = <<>> THEN <<>>
  ELSE (IF Head(keep) THEN <<Head(s)>> ELSE <<>>) \o VecRetain(Tail(s), Tail(keep))


(***************************************************************************)
(* Return values and arguments.  A return value is a record: tag names the *)
(* variant, n carries an index, an element or a closure's result, out a    *)
(* sequence of elements                                                    *)
(* (a drain's yield).                                                      *)
(***************************************************************************)
Ret(tag, n) == [tag |-> tag, n |-> n, out |-> <<>>]
RetUnit == Ret("Unit", 0)
RetNone == Ret("None", 0)
RetSome(e) == Ret("Some", e)
RetPanic == Ret("Panic", 0)

NoArg == [x |-> 0, y |-> 0, s |-> <<>>, keep |-> <<>>]
ArgX(x) == [NoArg EXCEPT !.x = x]
ArgS(s) == [NoArg EXCEPT !.s = s]

\* impl From<Result<usize, usize>> for FindOrInsert: Ok(i) is Found(i), Err(i)
\* is Inserted(i).
FindOrInsertFromSwapped(b) == IF b.ok THEN Ret("Inserted", b.idx) ELSE Ret("Found", b.idx)
FindOrInsertFrom(b) == IF b.ok THEN Ret("Found", b.idx) ELSE Ret("Inserted", b.idx)

(***************************************************************************)
(* SortedVec / ReverseSortedVec: each operation maps the backing vector s  *)
(* (and the call's arguments) to the new backing vector and the returned   *)
(* value.                                                                  *)
(***************************************************************************)
\* from_unsorted: sort in place under the container's comparator.
vec_from_unsorted(k, v) == sort_unstable(k, v)

\* insert: binary search, then Vec::insert at the index the search reports,
\* whether it reports a match or an insertion point.
vec_insert_at_end(k, s, x) == [vec |-> Append(s, x), ret |-> Ret("Index", Len(s))]
vec_insert(k, s, x) ==
  LET b == binary_search(k, s, x)
  IN  [vec |-> VecInsert(s, b.idx, x), ret |-> Ret("Index", b.idx)]

\* find_or_insert: on Ok nothing is touched; on Err the element is inserted at
\* the insertion point.
vec_find_or_insert_always(k, s, x) ==
  LET b == binary_search(k, s, x)
  IN  [vec |-> VecInsert(s, b.idx, x), ret |-> FindOrInsertFrom(b)]
vec_find_or_insert(k, s, x) ==
  LET b == binary_search(k, s, x)
  IN  [vec |-> IF b.ok THEN s ELSE VecInsert(s, b.idx, x),
       ret |-> FindOrInsertFrom(b)]

\* remove_item: binary search; Ok(i) removes the element at i and returns it.
vec_remove_item_all(k, s, x) ==
  LET b == binary_search(k, s, x)
  IN  IF b.ok THEN [vec |-> SelectSeq(s, LAMBDA e : e # x), ret |-> RetSome(s[b.idx + 1])]
      ELSE [vec |-> s, ret |-> RetNone]
vec_remove_item(k, s, x) ==
  LET b == binary_search(k, s, x)
  IN  IF b.ok THEN [vec |-> VecRemove(s, b.idx), ret |-> RetSome(s[b.idx + 1])]
      ELSE [vec |-> s, ret |-> RetNone]

\* remove_index: Vec::remove, which panics before touching the vector when
\* the index is out of bounds.
vec_remove_index(s, i) ==
  IF i >= Len(s) THEN [vec |-> s, ret |-> RetPanic]
  ELSE [vec |-> VecRemove(s, i), ret |-> RetSome(s[i + 1])]

\* pop: Vec::pop.
vec_pop(s) ==
  IF s = <<>> THEN [vec |-> s, ret |-> RetNone]
  ELSE [vec |-> SubSeq(s, 1, Len(s) - 1), ret |-> RetSome(s[Len(s)])]

\* mutate_vec: the closure leaves w in the backing vector and returns r; the
\* vector is then re-sorted and r returned.
vec_mutate_vec_nosort(k, w, r) == [vec |-> w, ret |-> Ret("Closure", r)]
vec_mutate_vec(k, w, r) == [vec |-> sort_unstable(k, w), ret |-> Ret("Closure", r)]

\* mutate_vec with a closure that panics after leaving w in the backing
\* vector: the unwinding leaves mutate_vec before its sort, and the set's
\* mutate_vec before its dedup as well.
mutate_vec_unwind(k, w) == [vec |-> w, ret |-> RetPanic]

\* dedup_by_key hands Vec::dedup_by_key a key closure of type
\* FnMut(&mut T) -> K.  The closures modelled: |x| { let k = *x / d; *x = m[*x]; k },
\* for a table m over the values and a divisor d; with m the identity the
\* closure leaves the elements alone.  Vec::dedup_by_key visits the elements
\* after the first in order and calls the closure on the visited element,
\* then on the last element kept, removing the visited one when the two keys
\* are equal.  kept: the elements kept so far; rest: those not yet visited.
key_of(d, x) == x \div d

RECURSIVE DedupByKeyLoop(_, _, _, _)
DedupByKeyLoop(m, d, kept, rest) ==
  IF rest = <<>> THEN kept
  ELSE LET cur   == Head(rest)
           last  == kept[Len(kept)]
           kept2 == [kept EXCEPT ![Len(kept)] = m[last]]
       IN  IF key_of(d, cur) = key_of(d, last)
           THEN DedupByKeyLoop(m, d, kept2, Tail(rest))
           ELSE DedupByKeyLoop(m, d, Append(kept2, m[cur]), Tail(rest))

vec_dedup_by_key(s, m, d) ==
  IF Len(s) <= 1 THEN s ELSE DedupByKeyLoop(m, d, <<s[1]>>, Tail(s))

(***************************************************************************)
(* SortedSet / ReverseSortedSet, built on the vectors above.               *)
(***************************************************************************)
\* from_unsorted: sort, then dedup.
set_from_unsorted_nodedup(k, v) == vec_from_unsorted(k, v)
set_from_unsorted(k, v) == VecDedup(vec_from_unsorted(k, v))

\* insert: remove_item(&element), result dropped, then the vector's insert.
set_insert_noremove(k, s, x) == vec_insert(k, s, x)
set_insert(k, s, x) == vec_insert(k, vec_remove_item(k, s, x).vec, x)

\* mutate_vec: the vector's mutate_vec, then dedup.
set_mutate_vec(k, w, r) ==
  LET m == vec_mutate_vec(k, w, r) IN [vec |-> VecDedup(m.vec), ret |-> m.ret]

(***************************************************************************)
(* Dispatch on the container's type.                                       *)
(***************************************************************************)
from_unsorted(k, v) ==
  IF k \in SetKinds THEN set_from_unsorted(k, v) ELSE vec_from_unsorted(k, v)

insert(k, s, x) == IF k \in SetKinds THEN set_insert(k, s, x) ELSE vec_insert(k, s, x)

mutate_vec(k, w, r) ==
  IF k \in SetKinds THEN set_mutate_vec(k, w, r) ELSE vec_mutate_vec(k, w, r)

\* Extend::extend: insert, in the iterator's order, result dropped.
RECURSIVE extend(_, _, _)
extend(k, s, it) ==
  IF it = <<>> THEN s ELSE extend(k, insert(k, s, Head(it)).vec, Tail(it))

(***************************************************************************)
(* Vec::drain, step by step.  s is the vector drain(lo..hi) was called on, *)
(* n the number of elements the Drain has yielded so far.                  *)
(***************************************************************************)
\* Vec::drain(lo..hi): panics on a range that is not within the vector;
\* otherwise the vector's length is set to lo for the lifetime of the Drain.
drain_begin(s, lo, hi) ==
  IF lo > hi \/ hi > Len(s) THEN [vec |-> s, ret |-> RetPanic]
  ELSE [vec |-> SubSeq(s, 1, lo), ret |-> Ret("Draining", 0)]

\* Drain::next: the next element of the range, or None once all hi - lo of
\* them have been yielded.
drain_next(s, lo, hi, r) ==
  IF r.n < hi - lo
  THEN [tag |-> "Draining", n |-> r.n + 1, out |-> Append(r.out, s[lo + r.n + 1])]
  ELSE [r EXCEPT !.tag = "DrainEnded"]

\* Drop for Drain: the elements of the range not yet yielded are dropped and
\* the tail s[hi..] is moved down to the vector's (shortened) end.
\* std::mem::forget of the Drain: nothing is moved back, the vector keeps the
\* length lo that Vec::drain gave it.
drain_forget(v) == v

drain_drop_unyielded(v, s, lo, hi, n) == v \o SubSeq(s, lo + n + 1, Len(s))
drain_drop(v, s, lo, hi, n) == v \o SubSeq(s, hi + 1, Len(s))

(***************************************************************************)
(* partial::SortedVec / partial::ReverseSortedVec (src/src/partial.rs),    *)
(* over an element type that is only partially ordered: the positive       *)
(* integers up to MaxPVal ordered by divisibility (a is below b when a     *)
(* divides b; 2 and 3 are incomparable), and one element NaN that is       *)
(* incomparable with every element and equal to none, itself included, as  *)
(* f32::NAN is among the f32 of the crate's tests.                         *)
(***************************************************************************)
MaxPVal == 6
\* The longest iterator handed to extend of a partial container.
MaxPExt == 1
NaN == 0
PValues == {NaN} \cup (1..MaxPVal)

PartialKinds == {"partial::SortedVec", "partial::ReverseSortedVec"}

\* PartialOrd::partial_cmp of the element type; "None" for an incomparable pair.
partial_cmp(a, b) ==
  IF a = NaN \/ b = NaN THEN "None"
  ELSE IF a = b THEN "Equal"
  ELSE IF b % a = 0 THEN "Less"
  ELSE IF a % b = 0 THEN "Greater"
  ELSE "None"

\* PartialEq::eq of the element type.
partial_eq(a, b) == a # NaN /\ b # NaN /\ a = b

\* partial_compare: partial_cmp unwrapped, a panic on None.
partial_compare(a, b) ==
  IF partial_cmp(a, b) = "None" THEN "Panic" ELSE partial_cmp(a, b)

\* The comparator of a partial container of kind k: partial_compare(x, y), for
\* the reverse type partial_compare(x, y).reverse(); the unwrap panics first.
PartialCompareUnreversed(k, a, b) == partial_compare(a, b)
PartialCompare(k, a, b) ==
  LET c == partial_compare(a, b)
  IN  IF c = "Panic" THEN "Panic"
      ELSE IF k = "partial::ReverseSortedVec" THEN Reverse(c) ELSE c

\* slice::binary_search_by with that comparator: the searches of
\* BinarySearchLoop and BinarySearchNarrow, ended by the panic of the first
\* probe that meets an incomparable pair.
RECURSIVE PartialBinarySearchLoop(_, _, _, _, _)
PartialBinarySearchLoop(k, s, x, left, right) ==
  IF left >= right THEN [panic |-> FALSE, ok |-> FALSE, idx |-> left]
  ELSE LET mid == left + ((right - left) \div 2)
           c   == PartialCompare(k, s[mid + 1], x)
       IN  IF c = "Panic" THEN [panic |-> TRUE, ok |-> FALSE, idx |-> 0]
           ELSE IF c = "Less" THEN PartialBinarySearchLoop(k, s, x, mid + 1, right)
           ELSE IF c = "Greater" THEN PartialBinarySearchLoop(k, s, x, left, mid)
           ELSE [panic |-> FALSE, ok |-> TRUE, idx |-> mid]

RECURSIVE PartialBinarySearchNarrow(_, _, _, _, _)
PartialBinarySearchNarrow(k, s, x, base, size) ==
  IF size > 1
  THEN LET half == size \div 2
           mid  == base + half
           c    == PartialCompare(k, s[mid + 1], x)
       IN  IF c = "Panic" THEN [panic |-> TRUE, ok |-> FALSE, idx |-> 0]
           ELSE PartialBinarySearchNarrow(k, s, x,
                                          IF c = "Greater" THEN base ELSE mid, size - half)
  ELSE LET c == PartialCompare(k, s[base + 1], x)
       IN  IF c = "Panic" THEN [panic |-> TRUE, ok |-> FALSE, idx |-> 0]
           ELSE IF c = "Equal" THEN [panic |-> FALSE, ok |-> TRUE, idx |-> base]
           ELSE [panic |-> FALSE, ok |-> FALSE, idx |-> IF c = "Less" THEN base + 1 ELSE base]

partial_binary_search(k, s, x) ==
  IF search = "early_return" THEN PartialBinarySearchLoop(k, s, x, 0, Len(s))
  ELSE IF s = <<>> THEN [panic |-> FALSE, ok |-> FALSE, idx |-> 0]
  ELSE PartialBinarySearchNarrow(k, s, x, 0, Len(s))

\* Result<usize, usize> as a returned value.
RetResult(b) == IF b.ok THEN Ret("Ok", b.idx) ELSE Ret("Err", b.idx)

\* sort_unstable_by with the comparator: the ordered permutation of s, or the
\* panic of a comparison.  (A sort that compares no incomparable pair has
\* compared its way to a chain, so whether it panics does not depend on the
\* sorting algorithm.)
RECURSIVE PartialSortInsert(_, _, _)
PartialSortInsert(k, s, x) ==
  IF s = <<>> THEN [panic |-> FALSE, vec |-> <<x>>]
  ELSE LET c == PartialCompare(k, x, Head(s))
       IN  IF c = "Panic" THEN [panic |-> TRUE, vec |-> <<>>]
           ELSE IF c = "Greater"
           THEN LET r == PartialSortInsert(k, Tail(s), x)
                IN  [panic |-> r.panic,
                     vec |-> IF r.panic THEN <<>> ELSE <<Head(s)>> \o r.vec]
           ELSE [panic |-> FALSE, vec |-> <<x>> \o s]

RECURSIVE partial_sort_unstable_by(_, _)
partial_sort_unstable_by(k, s) ==
  IF s = <<>> THEN [panic |-> FALSE, vec |-> <<>>]
  ELSE LET r == partial_sort_unstable_by(k, Tail(s))
       IN  IF r.panic THEN r ELSE PartialSortInsert(k, r.vec, Head(s))

\* Vec::dedup on the element type's ==.
RECURSIVE PartialVecDedup(_)
PartialVecDedup(s) ==
  IF Len(s) <= 1 THEN s
  ELSE IF partial_eq(s[2], s[1]) THEN PartialVecDedup(<<s[1]>> \o SubSeq(s, 3, Len(s)))
  ELSE <<s[1]>> \o PartialVecDedup(Tail(s))

\* from_unsorted: the sorted vector, or a panic and no container.
partial_from_unsorted(k, v) == partial_sort_unstable_by(k, v)

\* The orders in which a slice can hold the elements of w.
Orders(w) == {[i \in 1..Len(w) |-> w[f[i]]] : f \in Permutations(1..Len(w))}

\* mutate_vec: the closure leaves w in the vector, then sort_unstable_by on
\* partial_compare.  A panic of the comparison unwinds out of the sort, and the
\* vector keeps the elements of w in an order the sort does not specify, p.
partial_mutate_vec(k, w, p) ==
  LET r == partial_sort_unstable_by(k, w)
  IN  IF r.panic THEN [vec |-> p, ret |-> RetPanic]
      ELSE [vec |-> r.vec, ret |-> Ret("Closure", Len(w))]

\* insert, find_or_insert, remove_item, binary_search: a panic of the search
\* comes before the vector is touched.
partial_insert(k, s, x) ==
  LET b == partial_binary_search(k, s, x)
  IN  IF b.panic THEN [vec |-> s, ret |-> RetPanic]
      ELSE [vec |-> VecInsert(s, b.idx, x), ret |-> Ret("Index", b.idx)]

\* Extend::extend: insert, in the iterator's order; a panicking insert ends
\* the loop and leaves what the inserts before it placed.
RECURSIVE partial_extend(_, _, _)
partial_extend(k, s, it) ==
  IF it = <<>> THEN [vec |-> s, ret |-> RetUnit]
  ELSE LET r == partial_insert(k, s, Head(it))
       IN  IF r.ret = RetPanic THEN r ELSE partial_extend(k, r.vec, Tail(it))

partial_find_or_insert(k, s, x) ==
  LET b == partial_binary_search(k, s, x)
  IN  IF b.panic THEN [vec |-> s, ret |-> RetPanic]
      ELSE [vec |-> IF b.ok THEN s ELSE VecInsert(s, b.idx, x), ret |-> RetResult(b)]

partial_remove_item(k, s, x) ==
  LET b == partial_binary_search(k, s, x)
  IN  IF b.panic THEN [vec |-> s, ret |-> RetPanic]
      ELSE IF b.ok THEN [vec |-> VecRemove(s, b.idx), ret |-> RetSome(s[b.idx + 1])]
      ELSE [vec |-> s, ret |-> RetNone]

(***************************************************************************)
(* Validated deserialization (feature "serde").                            *)
(***************************************************************************)
\* slice::is_sorted for the forward types, is_sorted_by with the reversed
\* comparison for the reverse ones: no adjacent pair compares Greater.
is_sorted(k, v) ==
  \A i \in 1..(Len(v) - 1) : Compare(k, v[i], v[i + 1]) # "Greater"

\* parse_vec / parse_reverse_vec: the sequence itself when it is sorted in
\* the container's direction, an error otherwise.  SortedSet and
\* ReverseSortedSet deserialize (transparently) through their vector field.
parse_vec_resort(k, v) == [ok |-> TRUE, vec |-> sort_unstable(k, v)]
parse_vec(k, v) ==
  IF ~is_sorted(k, v) THEN [ok |-> FALSE, vec |-> <<>>] ELSE [ok |-> TRUE, vec |-> v]

(***************************************************************************)
(* Construction.                                                           *)
(***************************************************************************)
\* new(): an empty container.
New(k) ==
  /\ kind = k
  /\ vec = <<>>
  /\ op = "new"
  /\ arg = NoArg
  /\ pre = <<>>
  /\ ret = RetUnit

\* from_unsorted(v), and From<Vec<T>>::from(v), which calls it.
FromUnsorted(k, v) ==
  /\ kind = k
  /\ vec = from_unsorted(k, v)
  /\ op \in {"from_unsorted", "from"}
  /\ arg = ArgS(v)
  /\ pre = <<>>
  /\ ret = RetUnit

\* Deserializing the sequence v: a container holding parse_vec's vector, or an
\* error and no container.
Deserialize(k, v) ==
  /\ kind = k
  /\ vec = parse_vec(k, v).vec
  /\ op = "deserialize"
  /\ arg = ArgS(v)
  /\ pre = <<>>
  /\ ret = IF parse_vec(k, v).ok THEN Ret("Ok", 0) ELSE Ret("DeserializeError", 0)

\* partial: from_unsorted(v), which panics, leaving no container, when the
\* sort meets an incomparable pair.
PartialFromUnsorted(k, v) ==
  /\ kind = k
  /\ vec = partial_from_unsorted(k, v).vec
  /\ op = "from_unsorted"
  /\ arg = ArgS(v)
  /\ pre = <<>>
  /\ ret = IF partial_from_unsorted(k, v).panic THEN RetPanic ELSE RetUnit

\* No call is remembered before the first one.
NoPrev == [op |-> "none", x |-> 0, ret |-> RetUnit]

\* There is no second container.
NoTwin == [vec |-> <<>>, ret |-> RetUnit]

Init ==
  /\ prev = NoPrev
  /\ search \in StdSearches
  /\ twin = NoTwin
  /\ \E k \in Kinds :
       \/ New(k)
       \/ \E v \in SeqsUpTo(Values, MaxLen) : FromUnsorted(k, v)

\* A SortedSet or a ReverseSortedSet.
InitSets ==
  /\ prev = NoPrev
  /\ search \in StdSearches
  /\ twin = NoTwin
  /\ \E k \in SetKinds :
       \/ New(k)
       \/ \E v \in SeqsUpTo(Values, MaxLen) : FromUnsorted(k, v)

InitSerde ==
  /\ prev = NoPrev
  /\ search \in StdSearches
  /\ twin = NoTwin
  /\ \E k \in Kinds :
       \/ New(k)
       \/ \E v \in SeqsUpTo(Values, MaxLen) : FromUnsorted(k, v)
       \/ \E v \in SeqsUpTo(Values, MaxLen) : Deserialize(k, v)

InitPartial ==
  /\ prev = NoPrev
  /\ search \in StdSearches
  /\ twin = NoTwin
  /\ \E k \in PartialKinds :
       \/ New(k)
       \/ \E v \in SeqsUpTo(PValues, MaxLen) : PartialFromUnsorted(k, v)

\* A reverse container and the forward container of the same family, built
\* the same way.
ReverseKinds == {"ReverseSortedVec", "ReverseSortedSet"}
ForwardOf(k) == IF k = "ReverseSortedVec" THEN "SortedVec" ELSE "SortedSet"

InitMirror ==
  /\ prev = NoPrev
  /\ search \in StdSearches
  /\ \E k \in ReverseKinds :
       \/ New(k) /\ twin = NoTwin
       \/ \E v \in SeqsUpTo(Values, MaxLen) :
            /\ FromUnsorted(k, v)
            /\ twin = [vec |-> from_unsorted(ForwardOf(k), v), ret |-> RetUnit]

\* A partial container and the total container of the same direction, built
\* the same way from values that are pairwise comparable.  On comparable
\* values the element type's partial_cmp is the integers' cmp.
TotalOf(k) == IF k = "partial::ReverseSortedVec" THEN "ReverseSortedVec" ELSE "SortedVec"

Comparable(a, b) == partial_cmp(a, b) # "None"
PairwiseComparable(s) ==
  \A i \in 1..Len(s) : \A j \in 1..Len(s) : Comparable(s[i], s[j])

InitAgree ==
  /\ prev = NoPrev
  /\ search \in StdSearches
  /\ \E k \in PartialKinds :
       \/ New(k) /\ twin = NoTwin
       \/ \E v \in SeqsUpTo(PValues, MaxLen) :
            /\ PairwiseComparable(v)
            /\ PartialFromUnsorted(k, v)
            /\ twin = [vec |-> vec_from_unsorted(TotalOf(k), v), ret |-> RetUnit]

(***************************************************************************)
(* Operations on the container.                                            *)
(***************************************************************************)
\* There is a container to call: a failed deserialization and a from_unsorted
\* that panicked produced none, and a live Drain borrows the container mutably
\* until it is dropped or forgotten.  A container that a call panicked on is
\* still there once the panic is caught (std::panic::catch_unwind), as the
\* unwinding left it.
Exists ==
  /\ ret.tag \notin {"DeserializeError", "Draining", "DrainEnded"}
  /\ ~(op = "from_unsorted" /\ ret = RetPanic)

\* The call o(a) returned res.ret and left res.vec in the container.
Call(o, a, res) ==
  \E r \in {res} :
    /\ Len(r.vec) <= MaxLen
    /\ op' = o
    /\ arg' = a
    /\ pre' = vec
    /\ vec' = r.vec
    /\ ret' = r.ret
    /\ UNCHANGED <<kind, search>>

Insert(x) ==
  /\ Exists
  /\ Call("insert", ArgX(x), insert(kind, vec, x))

FindOrInsert(x) ==
  /\ Exists
  /\ Call("find_or_insert", ArgX(x), vec_find_or_insert(kind, vec, x))

RemoveItem(x) ==
  /\ Exists
  /\ Call("remove_item", ArgX(x), vec_remove_item(kind, vec, x))

RemoveIndex(i) ==
  /\ Exists
  /\ Call("remove_index", ArgX(i), vec_remove_index(vec, i))

BinarySearch(x) ==
  /\ Exists
  /\ LET b == binary_search(kind, vec, x)
     IN  Call("binary_search", ArgX(x),
              [vec |-> vec, ret |-> Ret(IF b.ok THEN "Ok" ELSE "Err", b.idx)])

Pop ==
  /\ Exists
  /\ Call("pop", NoArg, vec_pop(vec))

Clear ==
  /\ Exists
  /\ Call("clear", NoArg, [vec |-> <<>>, ret |-> RetUnit])

\* dedup is a method of the vector types only: a set derefs to its vector
\* immutably.
Dedup ==
  /\ Exists
  /\ kind \in VecKinds
  /\ Call("dedup", NoArg, [vec |-> VecDedup(vec), ret |-> RetUnit])

Retain(keep) ==
  /\ Exists
  /\ Call("retain", [NoArg EXCEPT !.keep = keep],
          [vec |-> VecRetain(vec, keep), ret |-> RetUnit])

Extend(it) ==
  /\ Exists
  /\ Call("extend", ArgS(it), [vec |-> extend(kind, vec, it), ret |-> RetUnit])

\* mutate_vec with a closure that leaves w in the backing vector, whatever was
\* there, and returns the length it left: |v| { *v = w; v.len() }.  What the
\* closure found is overwritten and is not recorded in pre.
MutateVec(w) ==
  /\ Exists
  /\ \E m \in {mutate_vec(kind, w, Len(w))} :
       /\ vec' = m.vec
       /\ ret' = m.ret
  /\ Len(vec') <= MaxLen
  /\ op' = "mutate_vec"
  /\ arg' = ArgS(w)
  /\ pre' = <<>>
  /\ UNCHANGED <<kind, search>>

\* drain(lo..hi), step by step: the call that creates the Drain, ...
DrainBegin(lo, hi) ==
  /\ Exists
  /\ Call("drain", [NoArg EXCEPT !.x = lo, !.y = hi], drain_begin(vec, lo, hi))

\* ... one call of next() on it, ...
DrainNext ==
  /\ op = "drain"
  /\ ret.tag = "Draining"
  /\ ret' = drain_next(pre, arg.x, arg.y, ret)
  /\ UNCHANGED <<kind, vec, op, arg, pre, search>>

\* ... and its drop, at any point of the iteration.
DrainDrop ==
  /\ op = "drain"
  /\ ret.tag \in {"Draining", "DrainEnded"}
  /\ vec' = drain_drop(vec, pre, arg.x, arg.y, ret.n)
  /\ ret' = [ret EXCEPT !.tag = "DrainDropped"]
  /\ UNCHANGED <<kind, op, arg, pre, search>>

\* ... or its leak: the Drain is forgotten instead of dropped.
DrainForget ==
  /\ op = "drain"
  /\ ret.tag \in {"Draining", "DrainEnded"}
  /\ vec' = drain_forget(vec)
  /\ ret' = [ret EXCEPT !.tag = "DrainForgotten"]
  /\ UNCHANGED <<kind, op, arg, pre, search>>

\* The operations of a partial container.
PartialInsert(x) ==
  /\ Exists
  /\ Call("insert", ArgX(x), partial_insert(kind, vec, x))

PartialFindOrInsert(x) ==
  /\ Exists
  /\ Call("find_or_insert", ArgX(x), partial_find_or_insert(kind, vec, x))

PartialRemoveItem(x) ==
  /\ Exists
  /\ Call("remove_item", ArgX(x), partial_remove_item(kind, vec, x))

PartialBinarySearch(x) ==
  /\ Exists
  /\ LET b == partial_binary_search(kind, vec, x)
     IN  Call("binary_search", ArgX(x),
              [vec |-> vec, ret |-> IF b.panic THEN RetPanic ELSE RetResult(b)])

PartialDedup ==
  /\ Exists
  /\ Call("dedup", NoArg, [vec |-> PartialVecDedup(vec), ret |-> RetUnit])

PartialExtend(it) ==
  /\ Exists
  /\ Call("extend", ArgS(it), partial_extend(kind, vec, it))

\* mutate_vec of a partial container; p is the order a panicking sort leaves.
PartialMutateVec(w, p) ==
  /\ Exists
  /\ LET m == partial_mutate_vec(kind, w, p)
     IN  /\ vec' = m.vec
         /\ ret' = m.ret
  /\ op' = "mutate_vec"
  /\ arg' = ArgS(w)
  /\ pre' = <<>>
  /\ UNCHANGED <<kind, search>>

\* mutate_vec with a closure that leaves w in the backing vector and panics.
MutateVecPanic(w) ==
  /\ Exists
  /\ LET m == mutate_vec_unwind(kind, w)
     IN  /\ vec' = m.vec
         /\ ret' = m.ret
  /\ op' = "mutate_vec"
  /\ arg' = ArgS(w)
  /\ pre' = <<>>
  /\ UNCHANGED <<kind, search>>

\* dedup_by_key with the key closure (m, d); a method of the vector types.
DedupByKey(m, d) ==
  /\ Exists
  /\ kind \in VecKinds
  /\ Call("dedup_by_key", [NoArg EXCEPT !.s = m, !.x = d],
          [vec |-> vec_dedup_by_key(vec, m, d), ret |-> RetUnit])

\* Bookkeeping of the call before the last: dropped, or kept.
Forget == UNCHANGED <<prev, twin>>
Remember == prev' = [op |-> op, x |-> arg.x, ret |-> ret] /\ UNCHANGED twin

\* The same call on the second container returned res.ret and left res.vec.
Twin(res) == twin' = res /\ UNCHANGED prev

Next ==
  \/ \E x \in Values : Insert(x) /\ Forget
  \/ \E x \in Values : FindOrInsert(x) /\ Forget
  \/ \E x \in Values : RemoveItem(x) /\ Forget
  \/ \E i \in 0..MaxLen : RemoveIndex(i) /\ Forget
  \/ \E x \in Values : BinarySearch(x) /\ Forget
  \/ Pop /\ Forget
  \/ Clear /\ Forget
  \/ Dedup /\ Forget
  \/ \E keep \in [1..Len(vec) -> BOOLEAN] : Retain(keep) /\ Forget
  \/ \E it \in SeqsUpTo(Values, MaxExt) : Extend(it) /\ Forget
  \/ \E lo \in 0..(Len(vec) + 1) : \E hi \in 0..(Len(vec) + 1) :
       DrainBegin(lo, hi) /\ Forget
  \/ DrainNext /\ Forget
  \/ DrainDrop /\ Forget
  \/ DrainForget /\ Forget

\* The calls a set offers (Next without dedup, which a set does not have)
\* and mutate_vec with closures that return.
NextSets ==
  \/ \E x \in Values : Insert(x) /\ Forget
  \/ \E x \in Values : FindOrInsert(x) /\ Forget
  \/ \E x \in Values : RemoveItem(x) /\ Forget
  \/ \E i \in 0..MaxLen : RemoveIndex(i) /\ Forget
  \/ \E x \in Values : BinarySearch(x) /\ Forget
  \/ Pop /\ Forget
  \/ Clear /\ Forget
  \/ \E keep \in [1..Len(vec) -> BOOLEAN] : Retain(keep) /\ Forget
  \/ \E it \in SeqsUpTo(Values, MaxExt) : Extend(it) /\ Forget
  \/ \E lo \in 0..(Len(vec) + 1) : \E hi \in 0..(Len(vec) + 1) :
       DrainBegin(lo, hi) /\ Forget
  \/ DrainNext /\ Forget
  \/ DrainDrop /\ Forget
  \/ DrainForget /\ Forget
  \/ \E w \in SeqsUpTo(Values, MaxLen) : MutateVec(w) /\ Forget

\* Calls of insert, find_or_insert and remove_item, each remembering the call
\* before it.
NextTwice ==
  \/ \E x \in Values : Insert(x) /\ Remember
  \/ \E x \in Values : FindOrInsert(x) /\ Remember
  \/ \E x \in Values : RemoveItem(x) /\ Remember

Spec == Init /\ [][Next]_vars

SpecSets == InitSets /\ [][NextSets]_vars

SpecTwice == Init /\ [][NextTwice]_vars

SpecSerde == InitSerde /\ [][Next]_vars

\* Drains taken step by step, between insertions.
NextDrain ==
  \/ \E x \in Values : Insert(x) /\ Forget
  \/ \E lo \in 0..(Len(vec) + 1) : \E hi \in 0..(Len(vec) + 1) :
       DrainBegin(lo, hi) /\ Forget
  \/ DrainNext /\ Forget
  \/ DrainDrop /\ Forget
  \/ DrainForget /\ Forget

SpecDrain == Init /\ [][NextDrain]_vars

\* A reverse container and its forward twin under the same calls.  A closure
\* given to mutate_vec leaves the same elements in both vectors, in the same
\* order or in the opposite one.
NextMirror ==
  \/ \E x \in Values :
       Insert(x) /\ Twin(insert(ForwardOf(kind), twin.vec, x))
  \/ \E x \in Values :
       FindOrInsert(x) /\ Twin(vec_find_or_insert(ForwardOf(kind), twin.vec, x))
  \/ \E x \in Values :
       RemoveItem(x) /\ Twin(vec_remove_item(ForwardOf(kind), twin.vec, x))
  \/ Dedup /\ Twin([vec |-> VecDedup(twin.vec), ret |-> RetUnit])
  \/ \E w \in SeqsUpTo(Values, MaxLen) : \E u \in {w, Rev(w)} :
       MutateVec(w) /\ Twin(mutate_vec(ForwardOf(kind), u, Len(u)))

SpecMirror == InitMirror /\ [][NextMirror]_vars

\* A partial container and its total twin under the same calls, each with an
\* element comparable with itself and with everything stored.
NextAgree ==
  \/ \E x \in PValues :
       /\ PairwiseComparable(Append(vec, x))
       /\ PartialInsert(x)
       /\ Twin(vec_insert(TotalOf(kind), twin.vec, x))
  \/ \E x \in PValues :
       /\ PairwiseComparable(Append(vec, x))
       /\ PartialFindOrInsert(x)
       /\ Twin(vec_find_or_insert(TotalOf(kind), twin.vec, x))
  \/ \E x \in PValues :
       /\ PairwiseComparable(Append(vec, x))
       /\ PartialRemoveItem(x)
       /\ Twin(vec_remove_item(TotalOf(kind), twin.vec, x))
  \/ \E x \in PValues :
       /\ PairwiseComparable(Append(vec, x))
       /\ PartialBinarySearch(x)
       /\ LET b == binary_search(TotalOf(kind), twin.vec, x)
          IN  Twin([vec |-> twin.vec, ret |-> Ret(IF b.ok THEN "Ok" ELSE "Err", b.idx)])
  \/ Pop /\ Twin(vec_pop(twin.vec))
  \/ PartialDedup /\ Twin([vec |-> VecDedup(twin.vec), ret |-> RetUnit])

SpecAgree == InitAgree /\ [][NextAgree]_vars

\* mutate_vec with closures that return and closures that panic.
NextUnwind ==
  \/ \E x \in Values : Insert(x) /\ Forget
  \/ \E w \in SeqsUpTo(Values, MaxLen) : MutateVec(w) /\ Forget
  \/ \E w \in SeqsUpTo(Values, MaxLen) : MutateVecPanic(w) /\ Forget

SpecUnwind == Init /\ [][NextUnwind]_vars

\* dedup_by_key with every table m and the divisors 1 (the key is the
\* element), 2, ... and MaxVal + 1 (the key is constant).
NextDedupKey ==
  \/ \E x \in Values : Insert(x) /\ Forget
  \/ \E m \in [Values -> Values] : \E d \in 1..(MaxVal + 1) : DedupByKey(m, d) /\ Forget

SpecDedupKey == Init /\ [][NextDedupKey]_vars

\* The partial containers: the operations that compare (extend among them),
\* and remove_index, pop, clear, dedup and drain, which do not.
NextPartial ==
  \/ \E x \in PValues : PartialInsert(x) /\ Forget
  \/ \E x \in PValues : PartialFindOrInsert(x) /\ Forget
  \/ \E x \in PValues : PartialRemoveItem(x) /\ Forget
  \/ \E x \in PValues : PartialBinarySearch(x) /\ Forget
  \/ Pop /\ Forget
  \/ Clear /\ Forget
  \/ PartialDedup /\ Forget
  \/ \E i \in 0..MaxLen : RemoveIndex(i) /\ Forget
  \/ \E it \in SeqsUpTo(PValues, MaxPExt) : PartialExtend(it) /\ Forget
  \/ \E lo \in 0..(Len(vec) + 1) : \E hi \in 0..(Len(vec) + 1) :
       DrainBegin(lo, hi) /\ Forget
  \/ DrainNext /\ Forget
  \/ DrainDrop /\ Forget
  \/ DrainForget /\ Forget

SpecPartial == InitPartial /\ [][NextPartial]_vars

\* The partial containers with mutate_vec: its sort compares and can panic,
\* and so can its closure.
NextPartialUnwind ==
  \/ NextPartial
  \/ \E w \in SeqsUpTo(PValues, MaxExt) : \E p \in Orders(w) :
       PartialMutateVec(w, p) /\ Forget
  \/ \E w \in SeqsUpTo(PValues, MaxExt) : MutateVecPanic(w) /\ Forget

SpecPartialUnwind == InitPartial /\ [][NextPartialUnwind]_vars

(***************************************************************************)
(* Vocabulary of the properties, stated on the integers themselves.        *)
(***************************************************************************)
NonDecreasing(s) == \A i \in 1..(Len(s) - 1) : s[i] <= s[i + 1]
NonIncreasing(s) == \A i \in 1..(Len(s) - 1) : s[i] >= s[i + 1]
StrictlyIncreasing(s) == \A i \in 1..(Len(s) - 1) : s[i] < s[i + 1]
StrictlyDecreasing(s) == \A i \in 1..(Len(s) - 1) : s[i] > s[i + 1]

\* Sorted in the direction of a container of kind k; strictly so.
SortedFor(k, s) == IF IsReverse(k) THEN NonIncreasing(s) ELSE NonDecreasing(s)
StrictFor(k, s) == IF IsReverse(k) THEN StrictlyDecreasing(s) ELSE StrictlyIncreasing(s)

\* a comes strictly before b in the order of a container of kind k.
Before(k, a, b) == IF IsReverse(k) THEN a > b ELSE a < b

Elems(s) == {s[i] : i \in 1..Len(s)}
Count(s, v) == Cardinality({i \in 1..Len(s) : s[i] = v})
SameMultiset(s, t) == \A v \in Elems(s) \cup Elems(t) : Count(s, v) = Count(t, v)
Without(s, x) == SelectSeq(s, LAMBDA e : e # x)

\* Of every run of consecutive elements of s with equal keys, the first.
RECURSIVE FirstOfRuns(_, _)
FirstOfRuns(s, d) ==
  IF Len(s) <= 1 THEN s
  ELSE LET front == SubSeq(s, 1, Len(s) - 1)
       IN  IF s[Len(s)] \div d = s[Len(s) - 1] \div d THEN FirstOfRuns(front, d)
           ELSE Append(FirstOfRuns(front, d), s[Len(s)])

\* What from_unsorted and mutate_vec owe for the sequence v they were given:
\* a vector type holds the sort of v, a set type the sorted distinct values.
HoldsSorted(k, s, v) ==
  IF k \in SetKinds THEN StrictFor(k, s) /\ Elems(s) = Elems(v)
  ELSE SortedFor(k, s) /\ SameMultiset(s, v)

(***************************************************************************)
(* C1.  Sortedness (I1): after every call, the backing sequence of a       *)
(* SortedVec is non-decreasing and that of a ReverseSortedVec is           *)
(* non-increasing.                                                         *)
(***************************************************************************)
C1_Sortedness ==
  /\ kind = "SortedVec" => NonDecreasing(vec)
  /\ kind = "ReverseSortedVec" => NonIncreasing(vec)

\* extend([2, 3]) on the ReverseSortedVec [2] leaves [3, 2, 2].
C1_Witness ==
  /\ kind = "ReverseSortedVec"
  /\ op = "extend"
  /\ pre = <<2>>
  /\ arg.s = <<2, 3>>
  /\ vec = <<3, 2, 2>>

(***************************************************************************)
(* C2.  Uniqueness (I2): after every call, the sequence of a SortedSet is  *)
(* strictly increasing and that of a ReverseSortedSet strictly decreasing. *)
(***************************************************************************)
C2_Uniqueness ==
  /\ kind = "SortedSet" => StrictlyIncreasing(vec)
  /\ kind = "ReverseSortedSet" => StrictlyDecreasing(vec)

\* mutate_vec whose closure leaves [3, 1, 3] in the SortedSet.
C2_Witness ==
  /\ kind = "SortedSet"
  /\ op = "mutate_vec"
  /\ arg.s = <<3, 1, 3>>
  /\ vec = <<1, 3>>

(***************************************************************************)
(* C3.  Insert index correctness: insert(x) on a SortedVec or              *)
(* ReverseSortedVec returns an index i, 0 <= i <= len, such that the new   *)
(* content is the old one with x spliced in at i, every element before i   *)
(* is <= x and every element from i on is >= x (inverted for the reverse   *)
(* type).                                                                  *)
(***************************************************************************)
C3_InsertIndex ==
  (op = "insert" /\ kind \in VecKinds) =>
    LET i == ret.n
        x == arg.x
    IN  /\ ret.tag = "Index"
        /\ i \in 0..Len(pre)
        /\ Len(vec) = Len(pre) + 1
        /\ vec = SubSeq(pre, 1, i) \o <<x>> \o SubSeq(pre, i + 1, Len(pre))
        /\ \A j \in 1..i : ~Before(kind, x, vec[j])
        /\ \A j \in (i + 1)..Len(vec) : ~Before(kind, vec[j], x)

\* insert(2) into the ReverseSortedVec [3, 1] returns 1 and leaves [3, 2, 1].
C3_Witness ==
  /\ kind = "ReverseSortedVec"
  /\ op = "insert"
  /\ pre = <<3, 1>>
  /\ arg.x = 2
  /\ ret = Ret("Index", 1)
  /\ vec = <<3, 2, 1>>

(***************************************************************************)
(* C4.  find_or_insert(x) on a SortedVec or ReverseSortedVec returns       *)
(* Found(i) exactly when an element equal to x was present; then the       *)
(* element at i is x and the container is unchanged.  Otherwise it returns *)
(* Inserted(i), the length grows by one, the element at i is x and the     *)
(* container is still sorted.                                              *)
(***************************************************************************)
C4_FindOrInsert ==
  (op = "find_or_insert" /\ kind \in VecKinds) =>
    LET i == ret.n
        x == arg.x
    IN  /\ ret.tag \in {"Found", "Inserted"}
        /\ ret.tag = "Found" <=> x \in Elems(pre)
        /\ ret.tag = "Found" =>
             /\ i \in 0..(Len(pre) - 1)
             /\ pre[i + 1] = x
             /\ vec = pre
        /\ ret.tag = "Inserted" =>
             /\ Len(vec) = Len(pre) + 1
             /\ i \in 0..Len(pre)
             /\ vec[i + 1] = x
             /\ SortedFor(kind, vec)

\* find_or_insert(2) on the SortedVec [2, 2, 3], which holds 2 twice.
C4_Witness ==
  /\ kind = "SortedVec"
  /\ op = "find_or_insert"
  /\ pre = <<2, 2, 3>>
  /\ arg.x = 2
  /\ ret.tag = "Found"
  /\ vec = <<2, 2, 3>>

(***************************************************************************)
(* C5.  insert(x) on a SortedSet or ReverseSortedSet replaces: with x      *)
(* present the length is unchanged, with x absent it grows by one; exactly *)
(* one element equal to x remains, all other elements are unchanged, and   *)
(* the returned index is where x now sits, which is the number of stored   *)
(* elements strictly before x in the container's order.                    *)
(***************************************************************************)
C5_SetInsert ==
  (op = "insert" /\ kind \in SetKinds) =>
    LET i == ret.n
        x == arg.x
    IN  /\ ret.tag = "Index"
        /\ x \in Elems(pre) => Len(vec) = Len(pre)
        /\ x \notin Elems(pre) => Len(vec) = Len(pre) + 1
        /\ Count(vec, x) = 1
        /\ Without(vec, x) = Without(pre, x)
        /\ i \in 0..(Len(vec) - 1)
        /\ vec[i + 1] = x
        /\ i = Cardinality({j \in 1..Len(vec) : Before(kind, vec[j], x)})

\* insert(2) into the ReverseSortedSet [3, 2, 1], which already holds 2.
C5_Witness ==
  /\ kind = "ReverseSortedSet"
  /\ op = "insert"
  /\ pre = <<3, 2, 1>>
  /\ arg.x = 2
  /\ ret = Ret("Index", 1)
  /\ vec = <<3, 2, 1>>

(***************************************************************************)
(* C6.  On a SortedSet or ReverseSortedSet: find_or_insert(x) on a set     *)
(* without x yields Inserted(i); a find_or_insert(x) that directly follows *)
(* a find_or_insert(x) that yielded Inserted(i), or an insert(x) that      *)
(* returned i, yields Found(i) and does not change the length.             *)
(***************************************************************************)
C6_InsertedThenFound ==
  (op = "find_or_insert" /\ kind \in SetKinds) =>
    /\ arg.x \notin Elems(pre) => ret.tag = "Inserted"
    /\ ( /\ prev.x = arg.x
         /\ \/ prev.op = "find_or_insert" /\ prev.ret.tag = "Inserted"
            \/ prev.op = "insert" ) =>
         /\ ret = Ret("Found", prev.ret.n)
         /\ Len(vec) = Len(pre)
         /\ vec = pre

\* find_or_insert(2) twice on a SortedSet that was [1, 3]: Inserted(1), then
\* Found(1).
C6_Witness ==
  /\ kind = "SortedSet"
  /\ prev = [op |-> "find_or_insert", x |-> 2, ret |-> Ret("Inserted", 1)]
  /\ op = "find_or_insert"
  /\ arg.x = 2
  /\ ret = Ret("Found", 1)
  /\ vec = <<1, 2, 3>>

(***************************************************************************)
(* C7.  from_unsorted(v), and From<Vec<T>>::from(v): a SortedVec holds the *)
(* ascending sort of v, a ReverseSortedVec the descending sort (the same   *)
(* multiset), a SortedSet / ReverseSortedSet the sorted distinct values of *)
(* v, each once.                                                           *)
(***************************************************************************)
C7_FromUnsorted ==
  (op \in {"from_unsorted", "from"}) => HoldsSorted(kind, vec, arg.s)

\* ReverseSortedSet::from([2, 3, 2]) holds [3, 2].
C7_Witness ==
  /\ kind = "ReverseSortedSet"
  /\ op = "from"
  /\ arg.s = <<2, 3, 2>>
  /\ vec = <<3, 2>>

(***************************************************************************)
(* C8.  mutate_vec whose closure returns: whatever the closure left in the *)
(* backing vector, the container afterwards holds exactly those values     *)
(* sorted in its direction (a set type: with equal values collapsed to     *)
(* one), and mutate_vec returns the closure's result.                      *)
(***************************************************************************)
C8_MutateVec ==
  (op = "mutate_vec" /\ ret # RetPanic) =>
    /\ HoldsSorted(kind, vec, arg.s)
    /\ ret = Ret("Closure", Len(arg.s))

\* The closure leaves [1, 3, 1] in the ReverseSortedVec.
C8_Witness ==
  /\ kind = "ReverseSortedVec"
  /\ op = "mutate_vec"
  /\ arg.s = <<1, 3, 1>>
  /\ vec = <<3, 1, 1>>
  /\ ret = Ret("Closure", 3)

(***************************************************************************)
(* C9.  Validated deserialization: into a SortedVec it succeeds exactly    *)
(* when the sequence is non-decreasing, into a ReverseSortedVec exactly    *)
(* when it is non-increasing; on success the container holds the input     *)
(* unchanged; on failure there is an error and no container.               *)
(***************************************************************************)
C9_Deserialize ==
  (op = "deserialize" /\ kind \in VecKinds) =>
    /\ ret.tag \in {"Ok", "DeserializeError"}
    /\ ret.tag = "Ok" <=> SortedFor(kind, arg.s)
    /\ ret.tag = "Ok" => vec = arg.s
    /\ ret.tag = "DeserializeError" => ~Exists /\ ~ENABLED (Next \/ NextUnwind \/ NextDedupKey)

\* [1, 3, 2] is refused as a SortedVec.
C9_Witness ==
  /\ kind = "SortedVec"
  /\ op = "deserialize"
  /\ arg.s = <<1, 3, 2>>
  /\ ret.tag = "DeserializeError"

(***************************************************************************)
(* C10.  remove_item(&x) on a SortedVec or ReverseSortedVec: with x        *)
(* present it returns Some(x), exactly one occurrence is removed and the   *)
(* remaining elements keep their order; with x absent it returns None and  *)
(* the container is unchanged.                                             *)
(***************************************************************************)
C10_RemoveItem ==
  (op = "remove_item" /\ kind \in VecKinds) =>
    LET x == arg.x
    IN  /\ x \in Elems(pre) =>
             /\ ret = RetSome(x)
             /\ Len(vec) = Len(pre) - 1
             /\ \E j \in 1..Len(pre) :
                  /\ pre[j] = x
                  /\ vec = SubSeq(pre, 1, j - 1) \o SubSeq(pre, j + 1, Len(pre))
        /\ x \notin Elems(pre) => ret = RetNone /\ vec = pre

\* remove_item(&2) on the ReverseSortedVec [3, 2, 2] leaves [3, 2].
C10_Witness ==
  /\ kind = "ReverseSortedVec"
  /\ op = "remove_item"
  /\ pre = <<3, 2, 2>>
  /\ arg.x = 2
  /\ ret = RetSome(2)
  /\ vec = <<3, 2>>

(***************************************************************************)
(* C11.  drain(lo..hi) over a range within the container: the Drain yields *)
(* the elements at the range's indices in stored order, each once, and     *)
(* ends only after the last of them; once the Drain is dropped, whether it *)
(* was consumed fully, partially or not at all, the container holds        *)
(* exactly the elements outside the range in their order, still sorted     *)
(* (a set: without duplicates); drain(..) leaves the container empty and,  *)
(* consumed, yields the whole content.                                     *)
(***************************************************************************)
C11_Drain ==
  (op = "drain" /\ arg.x <= arg.y /\ arg.y <= Len(pre)) =>
    LET lo    == arg.x
        hi    == arg.y
        range == SubSeq(pre, lo + 1, hi)
    IN  /\ ret.tag \in {"Draining", "DrainEnded", "DrainDropped", "DrainForgotten"}
        /\ ret.n = Len(ret.out)
        /\ ret.out = SubSeq(range, 1, ret.n)
        /\ ret.tag = "DrainEnded" => ret.out = range
        /\ ret.tag = "DrainDropped" =>
             /\ vec = SubSeq(pre, 1, lo) \o SubSeq(pre, hi + 1, Len(pre))
             /\ SortedFor(kind, vec)
             /\ kind \in SetKinds => StrictFor(kind, vec)
             /\ (lo = 0 /\ hi = Len(pre)) => vec = <<>>

\* drain(0..2) on the SortedVec [1, 2, 3], dropped after yielding 1, leaves [3].
C11_Witness ==
  /\ kind = "SortedVec"
  /\ op = "drain"
  /\ pre = <<1, 2, 3>>
  /\ arg.x = 0
  /\ arg.y = 2
  /\ ret.tag = "DrainDropped"
  /\ ret.out = <<1>>
  /\ vec = <<3>>

(***************************************************************************)
(* C12.  In partial::SortedVec and partial::ReverseSortedVec, a call of    *)
(* insert, find_or_insert, remove_item or binary_search with an element    *)
(* that is incomparable with some stored element panics: nothing is        *)
(* placed, matched or removed, and the stored sequence is what it was      *)
(* before the call.                                                        *)
(*                                                                         *)
(* Violated with mutate_vec: when its re-sort panics, the closure's values *)
(* stay stored in an order that is no chain, and a later binary search     *)
(* never probes the incomparable element.  After mutate_vec has left       *)
(* [NaN, 1], insert(2) returns index 2 and stores [NaN, 1, 2].             *)
(***************************************************************************)
C12_IncomparablePanics ==
  ( /\ kind \in PartialKinds
    /\ op \in {"insert", "find_or_insert", "remove_item", "binary_search"}
    /\ \E i \in 1..Len(pre) : partial_cmp(arg.x, pre[i]) = "None" ) =>
    /\ ret = RetPanic
    /\ vec = pre

(***************************************************************************)
(* C13.  A reverse container is the forward container of its family under  *)
(* the inverted order: given the same from_unsorted, or starting empty,    *)
(* and then the same calls of insert, find_or_insert, remove_item, dedup   *)
(* and mutate_vec (with closures leaving the same elements), after every   *)
(* call the reverse sequence is the forward sequence read back to front,   *)
(* and find_or_insert answers Found in one exactly when it does in the     *)
(* other.                                                                  *)
(***************************************************************************)
C13_ReverseMirrorsForward ==
  /\ vec = Rev(twin.vec)
  /\ op = "find_or_insert" => (ret.tag = "Found" <=> twin.ret.tag = "Found")

\* find_or_insert(3) finds 3 at index 0 of the ReverseSortedSet [3, 2, 1] and at
\* index 2 of the SortedSet [1, 2, 3].
C13_Witness ==
  /\ kind = "ReverseSortedSet"
  /\ op = "find_or_insert"
  /\ arg.x = 3
  /\ vec = <<3, 2, 1>>
  /\ ret = Ret("Found", 0)
  /\ twin.vec = <<1, 2, 3>>
  /\ twin.ret = Ret("Found", 2)

(***************************************************************************)
(* C14.  On pairwise comparable values a partial container agrees with the *)
(* total container of the same direction: built alike and given the same   *)
(* calls of insert, find_or_insert, remove_item, binary_search, pop and    *)
(* dedup, after every call both hold the same sequence and the call        *)
(* returned the same value in both, Ok(i) of the partial find_or_insert    *)
(* standing for Found(i) and Err(i) for Inserted(i).                       *)
(***************************************************************************)
C14_PartialAgreesWithTotal ==
  /\ vec = twin.vec
  /\ ret.n = twin.ret.n
  /\ IF op = "find_or_insert"
     THEN /\ ret.tag = "Ok" <=> twin.ret.tag = "Found"
          /\ ret.tag = "Err" <=> twin.ret.tag = "Inserted"
          /\ ret.tag \in {"Ok", "Err"}
     ELSE ret = twin.ret

\* find_or_insert(2) on the reverse containers [4, 2, 2]: Ok(1) in the partial
\* one, Found(1) in the total one.
C14_Witness ==
  /\ kind = "partial::ReverseSortedVec"
  /\ op = "find_or_insert"
  /\ arg.x = 2
  /\ vec = <<4, 2, 2>>
  /\ ret = Ret("Ok", 1)
  /\ twin = [vec |-> <<4, 2, 2>>, ret |-> Ret("Found", 1)]

(***************************************************************************)
(* C15.  mutate_vec restores the invariants on every exit path: when the   *)
(* closure panics after modifying the backing vector, the container        *)
(* observed afterwards is sorted, and a set holds no duplicates.           *)
(***************************************************************************)
C15_MutateVecPanicSafe ==
  (op = "mutate_vec" /\ ret = RetPanic) =>
    /\ SortedFor(kind, vec)
    /\ kind \in SetKinds => StrictFor(kind, vec)

(***************************************************************************)
(* C16.  Uniqueness holds for deserialized sets: a sequence accepted as a  *)
(* SortedSet or ReverseSortedSet has no repeated value, so that the sorted *)
(* input [1, 1, 2] is not accepted as a SortedSet.                         *)
(***************************************************************************)
C16_DeserializedSetUnique ==
  (op = "deserialize" /\ kind \in SetKinds /\ ret.tag = "Ok") =>
    /\ StrictFor(kind, arg.s)
    /\ StrictFor(kind, vec)

(***************************************************************************)
(* C17.  dedup_by_key keeps a SortedVec or ReverseSortedVec sorted for     *)
(* every key closure its signature admits, closures that change the        *)
(* elements they are handed included; with a closure that changes nothing  *)
(* the result is the first element of every run of consecutive equal keys. *)
(***************************************************************************)
C17_DedupByKey ==
  (op = "dedup_by_key") =>
    /\ SortedFor(kind, vec)
    /\ arg.s = [v \in Values |-> v] => vec = FirstOfRuns(pre, arg.x)

=============================================================================
